---------------------------- MODULE Spec2Model ----------------------------
(***************************************************************************)
(* dag_engine: a Graph builder (add_node / add_edge), its compilation by   *)
(* Kahn's algorithm (froze) into a FrozenGraph with a synthetic root, and  *)
(* the Scheduler whose run() drives one scoped thread per ready node and a *)
(* single mpsc completion channel owned by the Scheduler.                  *)
(*                                                                         *)
(* Indices are 0-based as in the source; the i-th element of a Vec is      *)
(* element i+1 of the sequence that models it.                             *)
(***************************************************************************)
EXTENDS Integers, Sequences, FiniteSets, TLC

(* Names a caller passes to add_node / add_edge; "" is the invalid name.   *)
(* The caller registers its nodes under the names of NameOrder, in that    *)
(* order (graphs that differ only by a renaming are not told apart), and   *)
(* may at any time also pass "" or a name that is already registered.      *)
NameOrder == <<"A", "B", "C">>

(* add_node refuses only the empty name, so a name may hold any character, *)
(* the NUL character included.  NulName stands for the name made of a, NUL *)
(* and b; the NUL character is written \0 in it.                           *)
NulName == "a\\0b"

Names == {""} \cup {NameOrder[k] : k \in 1 .. Len(NameOrder)} \cup {NulName}

(* Number of run() calls a caller makes on one Scheduler.                  *)
MaxRuns == 2

(* What a task can do when it is invoked: return Ok(()), return Err(e) or  *)
(* panic.  As in tests/scheduler_test.rs the error value / panic message   *)
(* of a task is the name of its node.                                      *)
Outcomes == {"Ok", "Err", "Panic"}

VARIABLES
    phase,          \* "building" | "frozen" | "consumed" | "scheduler"
    nodes,          \* Graph.nodes : Vec<Node>
    nodes_indices,  \* Graph.nodes_indices : HashMap<String, usize>
    root,           \* FrozenGraph.root
    lastResult,     \* what the last add_node / add_edge / froze / run returned
                    \* (for add_node / add_edge, with the arguments of the call)
    channel,        \* events sent on Scheduler.sender, not yet received
    pc,             \* position of run(): "idle" | "recv" | "join" | "returned"
    running_nodes,  \* run-local Vec<RunningNode>
    iter,           \* number of loop iterations of run() already completed
    ret,            \* value the scope closure returned while threads are joined
    threads,        \* scoped thread of each node: "none" | "spawned" | "terminated"
    nRuns,          \* number of run() calls started on the Scheduler
    prevAllOk,      \* history: every completed run() on the Scheduler returned Ok
    doneSet,        \* history: indices of the Done events consumed by this run
    produced        \* history: what each node's task did in this run, per invocation

vars == <<phase, nodes, nodes_indices, root, lastResult, channel, pc,
          running_nodes, iter, ret, threads, nRuns, prevAllOk, doneSet, produced>>

graphVars == <<nodes, nodes_indices>>
runVars == <<channel, pc, running_nodes, iter, ret, threads, nRuns, prevAllOk,
            doneSet, produced>>

----------------------------------------------------------------------------
(* Vec helpers, 0-based.                                                   *)

At(s, i) == s[i + 1]

Put(s, i, v) == [s EXCEPT ![i + 1] = v]

Indices(s) == 0 .. (Len(s) - 1)

----------------------------------------------------------------------------
(* error.rs                                                                *)

NoErr == [kind |-> "None"]

InvalidNode(name) == [kind |-> "InvalidNode", name |-> name]

DuplicatedNode(name) == [kind |-> "DuplicatedNode", name |-> name]

NodeNotFound(name) == [kind |-> "NodeNotFound", name |-> name]

InvalidEdge(from_node, to_node) ==
    [kind |-> "InvalidEdge", from_node |-> from_node, to_node |-> to_node]

DuplicatedEdge(from_node, to_node) ==
    [kind |-> "DuplicatedEdge", from_node |-> from_node, to_node |-> to_node]

CyclicGraphFound(ring) == [kind |-> "CyclicGraphFound", ring |-> ring]

RuntimeFailed(node, err) == [kind |-> "RuntimeFailed", node |-> node, err |-> err]

RuntimePanicked(node, err) == [kind |-> "RuntimePanicked", node |-> node, err |-> err]

----------------------------------------------------------------------------
(* graph.rs : Node, Graph                                                  *)

NodeNew(index, name) ==
    [index |-> index, name |-> name, parent_count |-> 0,
     childrens |-> <<>>, childrens_set |-> {}]

NoNode == NodeNew(0, "")

(* add_child that counts the parent before it looks for a repeated edge.   *)
add_child_CountFirst(parent, child) ==
    IF child.index \in parent.childrens_set
    THEN [ok |-> FALSE, err |-> DuplicatedEdge(parent.name, child.name),
          parent |-> parent, child |-> [child EXCEPT !.parent_count = @ + 1]]
    ELSE [ok |-> TRUE, err |-> NoErr,
          parent |-> [parent EXCEPT !.childrens_set = @ \cup {child.index},
                                    !.childrens = Append(@, child.index)],
          child |-> [child EXCEPT !.parent_count = @ + 1]]

(* add_child that puts the new child at the front of the child list.       *)
add_child_Prepend(parent, child) ==
    IF child.index \in parent.childrens_set
    THEN [ok |-> FALSE, err |-> DuplicatedEdge(parent.name, child.name),
          parent |-> parent, child |-> child]
    ELSE [ok |-> TRUE, err |-> NoErr,
          parent |-> [parent EXCEPT !.childrens_set = @ \cup {child.index},
                                    !.childrens = <<child.index>> \o @],
          child |-> [child EXCEPT !.parent_count = @ + 1]]

(* add_child that leaves the child's parent_count alone.                   *)
add_child_NoCount(parent, child) ==
    IF child.index \in parent.childrens_set
    THEN [ok |-> FALSE, err |-> DuplicatedEdge(parent.name, child.name),
          parent |-> parent, child |-> child]
    ELSE [ok |-> TRUE, err |-> NoErr,
          parent |-> [parent EXCEPT !.childrens_set = @ \cup {child.index},
                                    !.childrens = Append(@, child.index)],
          child |-> child]

(* Graph::add_child: HashSet::insert refuses a repeated child; otherwise   *)
(* the child's parent_count and the parent's child list are updated.       *)
add_child(parent, child) ==
    IF child.index \in parent.childrens_set
    THEN [ok |-> FALSE, err |-> DuplicatedEdge(parent.name, child.name),
          parent |-> parent, child |-> child]
    ELSE [ok |-> TRUE, err |-> NoErr,
          parent |-> [parent EXCEPT !.childrens_set = @ \cup {child.index},
                                    !.childrens = Append(@, child.index)],
          child |-> [child EXCEPT !.parent_count = @ + 1]]

(* The names the caller passes to add_node in the current state.           *)
NodeNameInputs ==
    {""} \cup DOMAIN nodes_indices
         \cup {NameOrder[k] : k \in {Len(nodes) + 1} \cap (1 .. Len(NameOrder))}
         \cup (IF Len(nodes) < Len(NameOrder) THEN {NulName} ELSE {})

(* add_node without the test for the empty name.                           *)
AddNode_NoEmptyCheck(name) ==
    /\ phase = "building"
    /\ IF name \in DOMAIN nodes_indices
       THEN /\ lastResult' = [op |-> "add_node", args |-> <<name>>,
                              ok |-> FALSE, err |-> DuplicatedNode(name)]
            /\ UNCHANGED graphVars
       ELSE LET index == Len(nodes) IN
            /\ nodes' = Append(nodes, NodeNew(index, name))
            /\ nodes_indices' = [n \in DOMAIN nodes_indices \cup {name} |->
                                    IF n = name THEN index ELSE nodes_indices[n]]
            /\ lastResult' = [op |-> "add_node", args |-> <<name>>,
                              ok |-> TRUE, err |-> NoErr]
    /\ UNCHANGED <<phase, root>>
    /\ UNCHANGED runVars

(* Graph::add_node                                                         *)
AddNode(name) ==
    /\ phase = "building"
    /\ IF name = ""
       THEN /\ lastResult' = [op |-> "add_node", args |-> <<name>>,
                              ok |-> FALSE, err |-> InvalidNode(name)]
            /\ UNCHANGED graphVars
       ELSE IF name \in DOMAIN nodes_indices
       THEN /\ lastResult' = [op |-> "add_node", args |-> <<name>>,
                              ok |-> FALSE, err |-> DuplicatedNode(name)]
            /\ UNCHANGED graphVars
       ELSE LET index == Len(nodes) IN
            /\ nodes' = Append(nodes, NodeNew(index, name))
            /\ nodes_indices' = [n \in DOMAIN nodes_indices \cup {name} |->
                                    IF n = name THEN index ELSE nodes_indices[n]]
            /\ lastResult' = [op |-> "add_node", args |-> <<name>>,
                              ok |-> TRUE, err |-> NoErr]
    /\ UNCHANGED <<phase, root>>
    /\ UNCHANGED runVars

(* Graph::add_edge                                                         *)
AddEdge(from_node, to_node) ==
    /\ phase = "building"
    /\ IF from_node = "" \/ to_node = "" \/ from_node = to_node
       THEN /\ lastResult' = [op |-> "add_edge", args |-> <<from_node, to_node>>,
                              ok |-> FALSE,
                              err |-> InvalidEdge(from_node, to_node)]
            /\ UNCHANGED graphVars
       ELSE IF from_node \notin DOMAIN nodes_indices
       THEN /\ lastResult' = [op |-> "add_edge", args |-> <<from_node, to_node>>,
                              ok |-> FALSE,
                              err |-> NodeNotFound(from_node)]
            /\ UNCHANGED graphVars
       ELSE IF to_node \notin DOMAIN nodes_indices
       THEN /\ lastResult' = [op |-> "add_edge", args |-> <<from_node, to_node>>,
                              ok |-> FALSE,
                              err |-> NodeNotFound(to_node)]
            /\ UNCHANGED graphVars
       ELSE LET parent_index == nodes_indices[from_node]
                child_index == nodes_indices[to_node]
                r == add_child(At(nodes, parent_index), At(nodes, child_index))
            IN  /\ lastResult' = [op |-> "add_edge", args |-> <<from_node, to_node>>,
                                  ok |-> r.ok, err |-> r.err]
                /\ nodes' = Put(Put(nodes, parent_index, r.parent), child_index, r.child)
                /\ UNCHANGED nodes_indices
    /\ UNCHANGED <<phase, root>>
    /\ UNCHANGED runVars

----------------------------------------------------------------------------
(* graph.rs : Graph::froze                                                 *)

(* The first loop of froze linking every node under the root, whatever its *)
(* in-degree.                                                              *)
RECURSIVE FrozeRoots_All(_, _, _)
FrozeRoots_All(index, in_degrees, st) ==
    IF index >= Len(in_degrees) THEN st
    ELSE LET r == add_child(st.root, At(st.nodes, index)) IN
         FrozeRoots_All(index + 1, in_degrees,
                    [nodes |-> Put(st.nodes, index, r.child),
                     root  |-> r.parent,
                     queue |-> IF At(in_degrees, index) = 0
                               THEN Append(st.queue, index) ELSE st.queue])

(* First loop of froze: every node whose in-degree is 0 is pushed on the   *)
(* queue and linked under the root with add_child, which also counts the   *)
(* root as a parent of that node.                                          *)
RECURSIVE FrozeRoots(_, _, _)
FrozeRoots(index, in_degrees, st) ==
    IF index >= Len(in_degrees) THEN st
    ELSE IF At(in_degrees, index) = 0
    THEN LET r == add_child(st.root, At(st.nodes, index)) IN
         FrozeRoots(index + 1, in_degrees,
                    [nodes |-> Put(st.nodes, index, r.child),
                     root  |-> r.parent,
                     queue |-> Append(st.queue, index)])
    ELSE FrozeRoots(index + 1, in_degrees, st)

(* KahnChildren, enqueueing a child when its in-degree reaches 1, not 0.   *)
RECURSIVE KahnChildren_Early(_, _, _)
KahnChildren_Early(childrens, k, st) ==
    IF k > Len(childrens) THEN st
    ELSE LET child_index == childrens[k]
             in_degree == At(st.in_degrees, child_index) - 1
         IN  KahnChildren_Early(childrens, k + 1,
                [st EXCEPT !.in_degrees = Put(@, child_index, in_degree),
                           !.queue = IF in_degree = 1 THEN Append(@, child_index) ELSE @])

(* Inner loop of Kahn's algorithm over the children of the cursor.         *)
RECURSIVE KahnChildren(_, _, _)
KahnChildren(childrens, k, st) ==
    IF k > Len(childrens) THEN st
    ELSE LET child_index == childrens[k]
             in_degree == At(st.in_degrees, child_index) - 1
         IN  KahnChildren(childrens, k + 1,
                [st EXCEPT !.in_degrees = Put(@, child_index, in_degree),
                           !.queue = IF in_degree = 0 THEN Append(@, child_index) ELSE @])

(* while queue_i < queue.len()                                             *)
RECURSIVE KahnLoop(_, _)
KahnLoop(ns, st) ==
    IF st.queue_i >= Len(st.queue) THEN st
    ELSE LET cursor == At(ns, At(st.queue, st.queue_i)) IN
         KahnLoop(ns, KahnChildren(cursor.childrens, 1,
                                   [st EXCEPT !.queue_i = @ + 1]))

(* RingLoop, listing the nodes whose in-degree did reach zero as well.     *)
RECURSIVE RingLoop_All(_, _, _, _)
RingLoop_All(index, in_degrees, ns, ring) ==
    IF index >= Len(in_degrees) THEN ring
    ELSE IF At(in_degrees, index) >= 0
    THEN RingLoop_All(index + 1, in_degrees, ns,
                  (IF Len(ring) > 1 THEN ring \o ", " ELSE ring) \o At(ns, index).name)
    ELSE RingLoop_All(index + 1, in_degrees, ns, ring)

(* The ring string: "[" then the names of the nodes whose in-degree is     *)
(* still positive, joined with ", ", then "]".                             *)
RECURSIVE RingLoop(_, _, _, _)
RingLoop(index, in_degrees, ns, ring) ==
    IF index >= Len(in_degrees) THEN ring
    ELSE IF At(in_degrees, index) > 0
    THEN RingLoop(index + 1, in_degrees, ns,
                  (IF Len(ring) > 1 THEN ring \o ", " ELSE ring) \o At(ns, index).name)
    ELSE RingLoop(index + 1, in_degrees, ns, ring)

Ring(in_degrees, ns) == RingLoop(0, in_degrees, ns, "[") \o "]"

(* The whole of froze on a node vector: the result and, on success, the    *)
(* node vector and root of the FrozenGraph.                                *)
FrozeOf(ns) ==
    LET n_node == Len(ns)
        in_degrees == [i \in 1 .. n_node |-> ns[i].parent_count]
        linked == FrozeRoots(0, in_degrees,
                             [nodes |-> ns, root |-> NodeNew(n_node, "$ROOT"),
                              queue |-> <<>>])
        kahn == KahnLoop(linked.nodes,
                         [in_degrees |-> in_degrees, queue |-> linked.queue,
                          queue_i |-> 0])
    IN  IF kahn.queue_i < n_node
        THEN [ok |-> FALSE, err |-> CyclicGraphFound(Ring(kahn.in_degrees, linked.nodes)),
              nodes |-> linked.nodes, root |-> linked.root,
              in_degrees |-> kahn.in_degrees, queue |-> kahn.queue]
        ELSE [ok |-> TRUE, err |-> NoErr,
              nodes |-> linked.nodes, root |-> linked.root,
              in_degrees |-> kahn.in_degrees, queue |-> kahn.queue]

(* Graph::froze consumes the Graph: on failure nothing is left to use.     *)
Froze ==
    /\ phase = "building"
    /\ LET r == FrozeOf(nodes) IN
       /\ lastResult' = [op |-> "froze", ok |-> r.ok, err |-> r.err]
       /\ phase' = IF r.ok THEN "frozen" ELSE "consumed"
       /\ nodes' = r.nodes
       /\ root' = r.root
    /\ UNCHANGED nodes_indices
    /\ UNCHANGED runVars

----------------------------------------------------------------------------
(* scheduler.rs : Scheduler                                                *)

(* Scheduler::new: the channel is created once, with the Scheduler.        *)
SchedulerNew ==
    /\ phase = "frozen"
    /\ phase' = "scheduler"
    /\ channel' = <<>>
    /\ UNCHANGED <<nodes, nodes_indices, root, lastResult, pc, running_nodes, iter,
                   ret, threads, nRuns, prevAllOk, doneSet, produced>>

RunningNodeNew(node) == [index |-> node.index, n_unfinished |-> node.parent_count]

(* RunningResult                                                           *)
Done(index) == [kind |-> "Done", index |-> index]

Error(index, err) == [kind |-> "Error", index |-> index, err |-> err]

Panic(index, err) == [kind |-> "Panic", index |-> index, err |-> err]

(* n_unfinished is a usize.  A value is held as its residue modulo 2^64    *)
(* nearest to zero, so usize::MAX is -1, and "x > 0" on the usize is       *)
(* "x # 0" on the residue.                                                 *)
UsizePositive(x) == x # 0

(* The panics of the thread that calls run().                             *)
SubtractOverflow == "attempt to subtract with overflow"

ThreadNameNul == "thread name may not contain interior null bytes"

SpawnFailed == "Resource temporarily unavailable"

SpawnOk == "spawned"

(* The name holds a NUL character.                                         *)
HasInteriorNul(name) == name = NulName

(* Builder::new().name(name).spawn_scoped(s, f).unwrap(): a name with an   *)
(* interior NUL is refused before any thread is created; otherwise the     *)
(* operating system creates the thread unless it has no resources left for *)
(* one (spawn_limit = 0 threads still available to this dispatch).  Either *)
(* failure is an Err that unwrap() turns into a panic of run().            *)
SpawnScoped(name, spawn_limit) ==
    IF HasInteriorNul(name) THEN ThreadNameNul
    ELSE IF spawn_limit = 0 THEN SpawnFailed
    ELSE SpawnOk

(* Dispatch without the "continue": a thread is spawned at every           *)
(* decrement.                                                              *)
RECURSIVE Dispatch_NoWait(_, _, _, _, _)
Dispatch_NoWait(childrens, k, overflow_checks, spawn_limit, st) ==
    IF k > Len(childrens) THEN st
    ELSE LET index == childrens[k]
             running_node == At(st.running_nodes, index)
         IN  IF running_node.n_unfinished = 0 /\ overflow_checks
             THEN [st EXCEPT !.unwind = TRUE, !.panic = SubtractOverflow]
             ELSE LET n == running_node.n_unfinished - 1
                      rns == Put(st.running_nodes, index,
                                 [running_node EXCEPT !.n_unfinished = n])
                      name == At(nodes, index).name
                  IN  IF FALSE
                      THEN Dispatch_NoWait(childrens, k + 1, overflow_checks, spawn_limit,
                                    [st EXCEPT !.running_nodes = rns])
                      ELSE IF SpawnScoped(name, spawn_limit) # SpawnOk
                      THEN [st EXCEPT !.running_nodes = rns, !.unwind = TRUE,
                                      !.panic = SpawnScoped(name, spawn_limit)]
                      ELSE Dispatch_NoWait(childrens, k + 1, overflow_checks, spawn_limit - 1,
                                    [st EXCEPT !.running_nodes = rns,
                                               !.threads = Put(@, index, "spawned")])

(* Dispatch that compares the counter with 1 instead of 0: a node is       *)
(* spawned as soon as at most one of its parents is still awaited.         *)
RECURSIVE Dispatch_OffByOne(_, _, _, _, _)
Dispatch_OffByOne(childrens, k, overflow_checks, spawn_limit, st) ==
    IF k > Len(childrens) THEN st
    ELSE LET index == childrens[k]
             running_node == At(st.running_nodes, index)
         IN  IF running_node.n_unfinished = 0 /\ overflow_checks
             THEN [st EXCEPT !.unwind = TRUE, !.panic = SubtractOverflow]
             ELSE LET n == running_node.n_unfinished - 1
                      rns == Put(st.running_nodes, index,
                                 [running_node EXCEPT !.n_unfinished = n])
                      name == At(nodes, index).name
                  IN  IF n > 1
                      THEN Dispatch_OffByOne(childrens, k + 1, overflow_checks, spawn_limit,
                                    [st EXCEPT !.running_nodes = rns])
                      ELSE IF SpawnScoped(name, spawn_limit) # SpawnOk
                      THEN [st EXCEPT !.running_nodes = rns, !.unwind = TRUE,
                                      !.panic = SpawnScoped(name, spawn_limit)]
                      ELSE Dispatch_OffByOne(childrens, k + 1, overflow_checks, spawn_limit - 1,
                                    [st EXCEPT !.running_nodes = rns,
                                               !.threads = Put(@, index, "spawned")])

(* for child_index in parent.childrens.iter(): decrement the counter of    *)
(* the child and, when the counter is no longer positive, spawn its        *)
(* thread.  Decrementing a counter that is 0 panics when the build checks  *)
(* overflow and wraps otherwise; a spawn that fails panics.  A panic       *)
(* abandons the loop (st.unwind, st.panic).                                *)
RECURSIVE Dispatch(_, _, _, _, _)
Dispatch(childrens, k, overflow_checks, spawn_limit, st) ==
    IF k > Len(childrens) THEN st
    ELSE LET index == childrens[k]
             running_node == At(st.running_nodes, index)
         IN  IF running_node.n_unfinished = 0 /\ overflow_checks
             THEN [st EXCEPT !.unwind = TRUE, !.panic = SubtractOverflow]
             ELSE LET n == running_node.n_unfinished - 1
                      rns == Put(st.running_nodes, index,
                                 [running_node EXCEPT !.n_unfinished = n])
                      name == At(nodes, index).name
                  IN  IF UsizePositive(n)
                      THEN Dispatch(childrens, k + 1, overflow_checks, spawn_limit,
                                    [st EXCEPT !.running_nodes = rns])
                      ELSE IF SpawnScoped(name, spawn_limit) # SpawnOk
                      THEN [st EXCEPT !.running_nodes = rns, !.unwind = TRUE,
                                      !.panic = SpawnScoped(name, spawn_limit)]
                      ELSE Dispatch(childrens, k + 1, overflow_checks, spawn_limit - 1,
                                    [st EXCEPT !.running_nodes = rns,
                                               !.threads = Put(@, index, "spawned")])

(* The children dispatched on behalf of the cursor: the root's when the    *)
(* cursor is the root, the node's own otherwise.                           *)
ParentOf(cursor_index) ==
    IF cursor_index = root.index THEN root ELSE At(nodes, cursor_index)

NoRet == [kind |-> "None"]

RetOk == [kind |-> "Ok"]

RetErr(err) == [kind |-> "Err", err |-> err]

RetUnwind(panic) == [kind |-> "Unwind", panic |-> panic]

(* The running nodes of the previous run() kept for the next one.          *)
FreshRunningNodes_Kept ==
    IF nRuns = 0 THEN [i \in 1 .. Len(nodes) |-> RunningNodeNew(nodes[i])]
    ELSE running_nodes

(* let mut running_nodes = ...: one RunningNode per node, built anew by    *)
(* every run().                                                            *)
FreshRunningNodes == [i \in 1 .. Len(nodes) |-> RunningNodeNew(nodes[i])]

(* run(), up to the first recv(): fresh running nodes, then the first      *)
(* iteration's dispatch of the children of the root.                       *)
RunStart ==
    /\ phase = "scheduler"
    /\ pc \in {"idle", "returned", "unwound"}
    /\ nRuns < MaxRuns
    /\ nRuns' = nRuns + 1
    /\ doneSet' = {}
    /\ produced' = [i \in 1 .. Len(nodes) |-> <<>>]
    /\ iter' = 0
    /\ LET fresh == FreshRunningNodes
           cursor == RunningNodeNew(root)
       IN  IF Len(fresh) = 0
           THEN /\ running_nodes' = fresh
                /\ threads' = <<>>
                /\ ret' = RetOk
                /\ pc' = "join"
           ELSE \E overflow_checks \in BOOLEAN,
                   spawn_limit \in 0 .. Len(ParentOf(cursor.index).childrens) :
                LET st == Dispatch(ParentOf(cursor.index).childrens, 1, overflow_checks,
                                   spawn_limit,
                                   [running_nodes |-> fresh,
                                    threads |-> [i \in 1 .. Len(nodes) |-> "none"],
                                    unwind |-> FALSE, panic |-> ""])
                IN  /\ running_nodes' = st.running_nodes
                    /\ threads' = st.threads
                    /\ ret' = IF st.unwind THEN RetUnwind(st.panic) ELSE NoRet
                    /\ pc' = IF st.unwind THEN "join" ELSE "recv"
    /\ UNCHANGED <<phase, nodes, nodes_indices, root, lastResult, channel, prevAllOk>>

(* The loop, one iteration short.                                          *)
LoopOver_Early(i, rns) == i + 1 >= Len(rns)

(* The loop, one iteration too long.                                      *)
LoopOver_Late(i, rns) == i > Len(rns)

(* for _ in 0..running_nodes.len(): the loop is over after as many        *)
(* iterations as there are running nodes.                                  *)
LoopOver(i, rns) == i >= Len(rns)

(* One receive of the loop, and what follows it up to the next receive:    *)
(* an Error or Panic event leaves the closure with the error; a Done event *)
(* makes its node the cursor, and either the loop is over (Ok) or the next *)
(* iteration dispatches the children of the cursor.                        *)
RunRecv ==
    /\ pc = "recv"
    /\ channel # <<>>
    /\ channel' = Tail(channel)
    /\ LET msg == Head(channel) IN
       CASE msg.kind = "Done" ->
              /\ doneSet' = doneSet \cup {msg.index}
              /\ iter' = iter + 1
              /\ IF LoopOver(iter + 1, running_nodes)
                 THEN /\ ret' = RetOk
                      /\ pc' = "join"
                      /\ UNCHANGED <<running_nodes, threads>>
                 ELSE \E overflow_checks \in BOOLEAN,
                         spawn_limit \in 0 .. Len(At(nodes, msg.index).childrens) :
                      LET cursor == At(running_nodes, msg.index)
                          st == Dispatch(ParentOf(cursor.index).childrens, 1,
                                         overflow_checks, spawn_limit,
                                         [running_nodes |-> running_nodes,
                                          threads |-> threads, unwind |-> FALSE,
                                          panic |-> ""])
                      IN  /\ running_nodes' = st.running_nodes
                          /\ threads' = st.threads
                          /\ ret' = IF st.unwind THEN RetUnwind(st.panic) ELSE NoRet
                          /\ pc' = IF st.unwind THEN "join" ELSE "recv"
         [] msg.kind = "Error" ->
              /\ ret' = RetErr(RuntimeFailed(At(nodes, msg.index).name, msg.err))
              /\ pc' = "join"
              /\ UNCHANGED <<running_nodes, threads, iter, doneSet>>
         [] msg.kind = "Panic" ->
              /\ ret' = RetErr(RuntimePanicked(At(nodes, msg.index).name, msg.err))
              /\ pc' = "join"
              /\ UNCHANGED <<running_nodes, threads, iter, doneSet>>
    /\ UNCHANGED <<phase, nodes, nodes_indices, root, lastResult, nRuns, prevAllOk, produced>>

(* The value a task produces, as the tasks of tests/scheduler_test.rs do:  *)
(* the error reason and the panic message are the name of the node.        *)
TaskValue(name, outcome) == name

(* The thread body with the Err and panic arms exchanged.                  *)
ThreadMessage_Swapped(index, outcome) ==
    CASE outcome = "Ok" -> Done(index)
      [] outcome = "Err" -> Panic(index, TaskValue(At(nodes, index).name, outcome))
      [] outcome = "Panic" -> Error(index, TaskValue(At(nodes, index).name, outcome))

(* The body of a spawned thread: invoke the task under catch_unwind, turn  *)
(* its result into one RunningResult, send it, terminate.                  *)
ThreadMessage(index, outcome) ==
    CASE outcome = "Ok" -> Done(index)
      [] outcome = "Err" -> Error(index, TaskValue(At(nodes, index).name, outcome))
      [] outcome = "Panic" -> Panic(index, TaskValue(At(nodes, index).name, outcome))

TaskRun(index, outcome) ==
    /\ pc \in {"recv", "join"}
    /\ index \in Indices(threads)
    /\ At(threads, index) = "spawned"
    /\ channel' = Append(channel, ThreadMessage(index, outcome))
    /\ threads' = Put(threads, index, "terminated")
    /\ produced' = Put(produced, index, Append(At(produced, index), outcome))
    /\ UNCHANGED <<phase, nodes, nodes_indices, root, lastResult, pc, running_nodes,
                   iter, ret, nRuns, prevAllOk, doneSet>>

(* Threads spawned detached: nothing is waited for.                        *)
ScopeJoined_Detached(ths) == TRUE

(* thread::scope ends: every spawned thread is joined, then run() returns  *)
(* what the closure returned, or goes on unwinding if the closure panicked.*)
ScopeJoined(ths) == \A i \in 1 .. Len(ths) : ths[i] # "spawned"

RunJoin_NoWaitOnError ==
    /\ pc = "join"
    /\ ScopeJoined(threads) \/ ret.kind = "Err"
    /\ pc' = IF ret.kind = "Unwind" THEN "unwound" ELSE "returned"
    /\ lastResult' = [op |-> "run", ok |-> (ret.kind = "Ok"),
                      err |-> IF ret.kind = "Err" THEN ret.err
                              ELSE IF ret.kind = "Unwind" THEN ret
                              ELSE NoErr]
    /\ prevAllOk' = (prevAllOk /\ ret.kind = "Ok")
    /\ ret' = NoRet
    /\ UNCHANGED <<phase, nodes, nodes_indices, root, channel, running_nodes, iter,
                   threads, nRuns, doneSet, produced>>

RunJoin ==
    /\ pc = "join"
    /\ ScopeJoined(threads)
    /\ pc' = IF ret.kind = "Unwind" THEN "unwound" ELSE "returned"
    /\ lastResult' = [op |-> "run", ok |-> (ret.kind = "Ok"),
                      err |-> IF ret.kind = "Err" THEN ret.err
                              ELSE IF ret.kind = "Unwind" THEN ret
                              ELSE NoErr]
    /\ prevAllOk' = (prevAllOk /\ ret.kind = "Ok")
    /\ ret' = NoRet
    /\ UNCHANGED <<phase, nodes, nodes_indices, root, channel, running_nodes, iter,
                   threads, nRuns, doneSet, produced>>

----------------------------------------------------------------------------
Init ==
    /\ phase = "building"
    /\ nodes = <<>>
    /\ nodes_indices = <<>>
    /\ root = NoNode
    /\ lastResult = [op |-> "new", ok |-> TRUE, err |-> NoErr]
    /\ channel = <<>>
    /\ pc = "idle"
    /\ running_nodes = <<>>
    /\ iter = 0
    /\ ret = NoRet
    /\ threads = <<>>
    /\ nRuns = 0
    /\ prevAllOk = TRUE
    /\ doneSet = {}
    /\ produced = <<>>

Next ==
    \/ \E name \in NodeNameInputs : AddNode(name)
    \/ \E from_node \in Names, to_node \in Names : AddEdge(from_node, to_node)
    \/ Froze
    \/ SchedulerNew
    \/ RunStart
    \/ RunRecv
    \/ \E index \in Indices(nodes), outcome \in Outcomes : TaskRun(index, outcome)
    \/ RunJoin

Spec == Init /\ [][Next]_vars

(* A Scheduler that is run once: the first call of run().                  *)
RunOnce == nRuns = 0 /\ RunStart

NextRunOnce ==
    \/ \E name \in NodeNameInputs : AddNode(name)
    \/ \E from_node \in Names, to_node \in Names : AddEdge(from_node, to_node)
    \/ Froze
    \/ SchedulerNew
    \/ RunOnce
    \/ RunRecv
    \/ \E index \in Indices(nodes), outcome \in Outcomes : TaskRun(index, outcome)
    \/ RunJoin

(* Every task terminates: the spawned thread of a node is scheduled by the *)
(* operating system, its task returns or panics and the event is sent.     *)
(* recv() returns once an event is in the channel, and the scope ends once *)
(* every thread has terminated.                                            *)
Fairness ==
    /\ \A index \in Indices(NameOrder) :
          WF_vars(\E outcome \in Outcomes : TaskRun(index, outcome))
    /\ WF_vars(RunRecv)
    /\ WF_vars(RunJoin)

SpecRunOnce == Init /\ [][NextRunOnce]_vars /\ Fairness

----------------------------------------------------------------------------
(* Vocabulary of the properties.                                           *)

N == Len(nodes)

(* The real parents of node i: the nodes whose child list holds i.         *)
Parents(i) == {j \in Indices(nodes) :
                  \E k \in 1 .. Len(At(nodes, j).childrens) : At(nodes, j).childrens[k] = i}

Children(j) == {At(nodes, j).childrens[k] : k \in 1 .. Len(At(nodes, j).childrens)}

(* Nodes reachable from the nodes of S by one or more edges.               *)
RECURSIVE ReachFrom(_, _)
ReachFrom(frontier, seen) ==
    LET next == UNION {Children(j) : j \in frontier} \ seen IN
    IF next = {} THEN seen ELSE ReachFrom(next, seen \cup next)

Descendants(j) == ReachFrom({j}, {})

Ancestors(i) == {j \in Indices(nodes) : i \in Descendants(j)}

HasCycle == \E j \in Indices(nodes) : j \in Descendants(j)

InRun == phase = "scheduler" /\ pc \in {"recv", "join", "returned", "unwound"}

RunOver == phase = "scheduler" /\ pc \in {"returned", "unwound"}

FirstRun == InRun /\ nRuns = 1

(* The node's thread was spawned in the current run.                       *)
Dispatched(i) == At(threads, i) # "none"

(* The node's task was invoked in the current run and did this.            *)
Invoked(i) == At(produced, i) # <<>>

Succeeded(i) == At(produced, i) = <<"Ok">>

NoTaskFailed == \A i \in Indices(produced) :
                   \A k \in 1 .. Len(At(produced, i)) : At(produced, i)[k] = "Ok"

FailedNodes == {i \in Indices(produced) :
                   \E k \in 1 .. Len(At(produced, i)) : At(produced, i)[k] # "Ok"}

(* run() is unwinding, or has unwound, from the panic of a spawn that      *)
(* failed; respectively from the panic of a subtraction that overflowed.   *)
SpawnPanicked ==
    \/ ret.kind = "Unwind" /\ ret.panic \in {ThreadNameNul, SpawnFailed}
    \/ pc = "unwound" /\ lastResult.err.panic \in {ThreadNameNul, SpawnFailed}

SubtractPanicked ==
    \/ ret.kind = "Unwind" /\ ret.panic = SubtractOverflow
    \/ pc = "unwound" /\ lastResult.err.panic = SubtractOverflow

IndexOfName(name) == CHOOSE i \in Indices(nodes) : At(nodes, i).name = name

TypeOK ==
    /\ phase \in {"building", "frozen", "consumed", "scheduler"}
    /\ pc \in {"idle", "recv", "join", "returned", "unwound"}

----------------------------------------------------------------------------
(* C1: in the first run() on a new Scheduler, a node whose thread has been *)
(* spawned has had the Done event of every one of its parents consumed by  *)
(* the loop, and each of those parents' tasks returned Ok; so a node with  *)
(* several parents is dispatched only after the last of them succeeded.    *)
C1_DispatchAfterParents ==
    FirstRun =>
        \A i \in Indices(threads) :
            Dispatched(i) =>
                /\ Parents(i) \subseteq doneSet
                /\ \A p \in Parents(i) : Succeeded(p)

(* A node with two parents has been dispatched in the first run.           *)
C1_Witness ==
    /\ FirstRun
    /\ \E i \in Indices(threads) : Dispatched(i) /\ Cardinality(Parents(i)) = 2

(* C2: a graph without a cycle is frozen successfully, and when the first  *)
(* run() is over and no task failed, it returned Ok after exactly N        *)
(* iterations, every event sent was consumed, and every one of the N tasks *)
(* was invoked exactly once.                                               *)
C2_AllRunOnce ==
    /\ (phase = "building" /\ ~HasCycle) => FrozeOf(nodes).ok
    /\ (FirstRun /\ RunOver /\ NoTaskFailed) =>
          /\ pc = "returned"
          /\ lastResult = [op |-> "run", ok |-> TRUE, err |-> NoErr]
          /\ iter = N
          /\ channel = <<>>
          /\ \A i \in Indices(nodes) : Succeeded(i)

(* The same for the first runs in which no spawn failed.                   *)
C2_AllRunOnceIfSpawned ==
    (FirstRun /\ RunOver /\ NoTaskFailed /\ ~SpawnPanicked) =>
          /\ pc = "returned"
          /\ lastResult = [op |-> "run", ok |-> TRUE, err |-> NoErr]
          /\ iter = N
          /\ channel = <<>>
          /\ \A i \in Indices(nodes) : Succeeded(i)

(* The first run() of a three-node graph with a fan-in returned Ok.        *)
C2_Witness ==
    /\ FirstRun /\ RunOver /\ NoTaskFailed
    /\ N = 3
    /\ \E i \in Indices(nodes) : Cardinality(Parents(i)) = 2

(* C3: in the first run(), the first Error or Panic event the loop takes   *)
(* from the channel ends the loop with RuntimeFailed, respectively         *)
(* RuntimePanicked, naming the node that sent it and carrying its value;   *)
(* run() then returns that error and no other.  When the run is over and   *)
(* some task failed, run() returned such an error for a node whose task    *)
(* did fail that way, with the value the task produced; if exactly one     *)
(* task failed, it is the node named.                                      *)
C3_ErrorOf(msg) ==
    IF msg.kind = "Error"
    THEN RuntimeFailed(At(nodes, msg.index).name, msg.err)
    ELSE RuntimePanicked(At(nodes, msg.index).name, msg.err)

C3_AtReturn ==
    (FirstRun /\ RunOver /\ FailedNodes # {}) =>
        /\ pc = "returned"
        /\ lastResult.op = "run" /\ ~lastResult.ok
        /\ lastResult.err.kind \in {"RuntimeFailed", "RuntimePanicked"}
        /\ \E i \in FailedNodes :
              /\ lastResult.err.node = At(nodes, i).name
              /\ At(produced, i) =
                    <<IF lastResult.err.kind = "RuntimeFailed" THEN "Err" ELSE "Panic">>
              /\ lastResult.err.err = TaskValue(At(nodes, i).name, At(produced, i)[1])
              /\ (Cardinality(FailedNodes) = 1 => FailedNodes = {i})

C3_Step ==
    /\ (nRuns = 1 /\ pc = "recv" /\ pc' = "join" /\ ret'.kind = "Err") =>
           /\ channel # <<>>
           /\ Head(channel).kind \in {"Error", "Panic"}
           /\ ret'.err = C3_ErrorOf(Head(channel))
    /\ (nRuns = 1 /\ pc = "recv" /\ Len(channel') < Len(channel)
                  /\ Head(channel).kind \in {"Error", "Panic"}) =>
           /\ pc' = "join"
           /\ ret' = RetErr(C3_ErrorOf(Head(channel)))
    /\ (nRuns = 1 /\ pc = "join" /\ pc' # "join" /\ ret.kind = "Err") =>
           /\ pc' = "returned"
           /\ lastResult' = [op |-> "run", ok |-> FALSE, err |-> ret.err]

C3_FirstFailureReported == [](C3_AtReturn) /\ [][C3_Step]_vars

(* The same for the first runs in which no spawn failed.                   *)
C3_FirstFailureReportedIfSpawned ==
    [](~SpawnPanicked => C3_AtReturn) /\ [][C3_Step]_vars

(* The first run() returned an error although another task, whose event    *)
(* was never consumed, had failed as well.                                 *)
C3_Witness ==
    /\ FirstRun /\ pc = "returned" /\ ~lastResult.ok
    /\ Cardinality(FailedNodes) >= 2
    /\ channel # <<>>

(* C4: in the first run(), once an Error or Panic event has been consumed  *)
(* no thread is spawned any more; a node with a parent whose Done event    *)
(* was not consumed is neither dispatched nor invoked; and when the graph  *)
(* is a linear chain and the run returned an error naming its k-th node,   *)
(* exactly k tasks were invoked.                                           *)
IsChain ==
    /\ N >= 1
    /\ Cardinality({i \in Indices(nodes) : Parents(i) = {}}) = 1
    /\ \A i \in Indices(nodes) :
          Cardinality(Parents(i)) <= 1 /\ Cardinality(Children(i)) <= 1

DispatchedSet(ths) == {i \in 0 .. (Len(ths) - 1) : ths[i + 1] # "none"}

C4_State ==
    FirstRun =>
        /\ \A i \in Indices(threads) :
              ~(Parents(i) \subseteq doneSet) => ~Dispatched(i) /\ ~Invoked(i)
        /\ (ret.kind = "Err" \/ (pc = "returned" /\ ~lastResult.ok)) =>
              LET f == IndexOfName(IF pc = "returned" THEN lastResult.err.node
                                   ELSE ret.err.node)
              IN  /\ \A d \in Descendants(f) : ~Dispatched(d) /\ ~Invoked(d)
                  /\ (IsChain /\ pc = "returned") =>
                        Cardinality({i \in Indices(nodes) : Invoked(i)})
                            = Cardinality(Ancestors(f)) + 1

C4_Step ==
    (nRuns = 1 /\ pc = "join" /\ ret.kind = "Err") =>
        /\ DispatchedSet(threads') = DispatchedSet(threads)
        /\ running_nodes' = running_nodes

C4_NoDispatchAfterFailure == [](C4_State) /\ [][C4_Step]_vars

(* The first run() of the chain A -> B -> C returned the failure of B,     *)
(* the second node: two tasks were invoked and C never was.                *)
C4_Witness ==
    /\ FirstRun /\ pc = "returned" /\ ~lastResult.ok
    /\ IsChain /\ N = 3
    /\ Cardinality(Ancestors(IndexOfName(lastResult.err.node))) = 1
    /\ Cardinality({i \in Indices(nodes) : Invoked(i)}) = 2

(* C5: when run() is over (it returned, or its panic left the scope) no    *)
(* thread spawned by it is still running: each has invoked its task once,  *)
(* sent its event and terminated.                                          *)
C5_NoThreadOutlivesRun ==
    RunOver =>
        \A i \in Indices(threads) :
            /\ At(threads, i) # "spawned"
            /\ At(threads, i) = "terminated" => Len(At(produced, i)) = 1

(* run() returned an error after joining the thread of another node it    *)
(* had dispatched, whose event is in the channel.                          *)
C5_Witness ==
    /\ RunOver /\ pc = "returned" /\ ~lastResult.ok
    /\ \E i \in Indices(threads) :
          /\ At(threads, i) = "terminated"
          /\ At(nodes, i).name # lastResult.err.node
          /\ \E k \in 1 .. Len(channel) : channel[k].index = i

(* C6: when run() has returned, the channel of the Scheduler holds no      *)
(* event: every event sent during the run was consumed.                    *)
C6_ChannelDrained ==
    (phase = "scheduler" /\ pc = "returned") => channel = <<>>

(* C7: a run() that follows a run() which returned RuntimeFailed or        *)
(* RuntimePanicked dispatches a node only after all its parents' tasks     *)
(* returned Ok in this run, leaves the loop with Ok only if all N tasks    *)
(* returned Ok in this run, and leaves it with an error only for a node    *)
(* whose task failed that way in this run.                                 *)
C7_RetryLikeFresh ==
    (/\ phase = "scheduler" /\ pc \in {"recv", "join"}
     /\ lastResult.op = "run"
     /\ lastResult.err.kind \in {"RuntimeFailed", "RuntimePanicked"}) =>
        /\ \A i \in Indices(threads) :
              Dispatched(i) => \A p \in Parents(i) : Succeeded(p)
        /\ (ret.kind = "Ok" /\ ScopeJoined(threads)) =>
              \A i \in Indices(nodes) : Succeeded(i)
        /\ ret.kind = "Err" =>
              At(produced, IndexOfName(ret.err.node)) =
                  <<IF ret.err.kind = "RuntimeFailed" THEN "Err" ELSE "Panic">>

(* C8: as long as every completed run() on the Scheduler returned Ok, the  *)
(* channel is empty whenever a run() can start; in the next run() a node   *)
(* is dispatched only after the Done events of all its parents were        *)
(* consumed in that run; and when its threads are joined and no task       *)
(* failed, the loop ended with Ok after N iterations with every task       *)
(* invoked exactly once.                                                   *)
C8_RerunAfterOk ==
    (phase = "scheduler" /\ prevAllOk) =>
        /\ pc \in {"idle", "returned"} => channel = <<>>
        /\ InRun =>
              \A i \in Indices(threads) :
                  Dispatched(i) =>
                      Parents(i) \subseteq doneSet /\ \A p \in Parents(i) : Succeeded(p)
        /\ (pc = "join" /\ ScopeJoined(threads) /\ NoTaskFailed) =>
              /\ ret = RetOk
              /\ iter = N
              /\ \A i \in Indices(nodes) : Succeeded(i)

(* The same for the runs in which no spawn failed.                         *)
C8_RerunAfterOkIfSpawned ==
    (phase = "scheduler" /\ prevAllOk /\ ~SpawnPanicked) =>
        /\ pc \in {"idle", "returned"} => channel = <<>>
        /\ InRun =>
              \A i \in Indices(threads) :
                  Dispatched(i) =>
                      Parents(i) \subseteq doneSet /\ \A p \in Parents(i) : Succeeded(p)
        /\ (pc = "join" /\ ScopeJoined(threads) /\ NoTaskFailed) =>
              /\ ret = RetOk
              /\ iter = N
              /\ \A i \in Indices(nodes) : Succeeded(i)

(* A second run() after a first that returned Ok has run all three tasks   *)
(* of a graph with a fan-in and is about to return Ok.                     *)
C8_Witness ==
    /\ phase = "scheduler" /\ prevAllOk /\ nRuns = 2
    /\ pc = "join" /\ ret = RetOk
    /\ N = 3
    /\ \E i \in Indices(nodes) : Cardinality(Parents(i)) = 2

(* C9: froze() fails, with CyclicGraphFound, exactly when the graph has a  *)
(* directed cycle; otherwise it yields the FrozenGraph.                    *)
C9_CycleIffError ==
    lastResult.op = "froze" =>
        /\ lastResult.ok <=> ~HasCycle
        /\ lastResult.ok => phase \in {"frozen", "scheduler"}
        /\ ~lastResult.ok => lastResult.err.kind = "CyclicGraphFound" /\ phase = "consumed"

(* froze() failed on a three-node graph of which one node is on no cycle.  *)
C9_Witness ==
    /\ lastResult.op = "froze" /\ ~lastResult.ok
    /\ N = 3
    /\ \E i \in Indices(nodes) : i \notin Descendants(i)

(* C10: the payload of CyclicGraphFound is the bracketed, ", "-separated   *)
(* list, in insertion order and without repetition, of the names of the    *)
(* nodes that lie on a directed cycle or are reachable from one; for one   *)
(* simple cycle through all the nodes it lists every node.                 *)
OnOrBelowCycle(i) ==
    \E c \in Indices(nodes) : c \in Descendants(c) /\ (i = c \/ i \in Descendants(c))

RECURSIVE JoinComma(_)
JoinComma(names) ==
    IF names = <<>> THEN ""
    ELSE IF Len(names) = 1 THEN names[1]
    ELSE names[1] \o ", " \o JoinComma(Tail(names))

RECURSIVE NamesOf(_, _)
NamesOf(index, keep) ==
    IF index >= N THEN <<>>
    ELSE (IF index \in keep THEN <<At(nodes, index).name>> ELSE <<>>)
             \o NamesOf(index + 1, keep)

IsSimpleCycle ==
    /\ N >= 2
    /\ \A i \in Indices(nodes) : Cardinality(Children(i)) = 1 /\ Cardinality(Parents(i)) = 1
    /\ Descendants(0) = Indices(nodes)

C10_RingPayload ==
    (lastResult.op = "froze" /\ ~lastResult.ok) =>
        /\ lastResult.err.ring =
              "[" \o JoinComma(NamesOf(0, {i \in Indices(nodes) : OnOrBelowCycle(i)})) \o "]"
        /\ IsSimpleCycle =>
              lastResult.err.ring = "[" \o JoinComma(NamesOf(0, Indices(nodes))) \o "]"

(* froze() failed on a three-node graph with a node that is neither on a   *)
(* cycle nor reachable from one: the payload names two of the three nodes. *)
C10_Witness ==
    /\ lastResult.op = "froze" /\ ~lastResult.ok
    /\ N = 3
    /\ Cardinality({i \in Indices(nodes) : OnOrBelowCycle(i)}) = 2
    /\ lastResult.err.ring \in {"[A, B]", "[A, C]", "[B, C]"}

----------------------------------------------------------------------------
(* Vocabulary of the builder properties.                                   *)

(* The name is the name of a node of the vector.                           *)
Registered(ns, name) == \E k \in 1 .. Len(ns) : ns[k].name = name

PosOfName(ns, name) == CHOOSE k \in 1 .. Len(ns) : ns[k].name = name

(* The edge from the node at position a to the node at position b exists.  *)
HasEdge(ns, a, b) ==
    \E k \in 1 .. Len(ns[a].childrens) : ns[a].childrens[k] = ns[b].index

(* The step is a call of add_node, respectively add_edge.                  *)
AddNodeStep == phase = "building" /\ lastResult'.op = "add_node"

AddEdgeStep == phase = "building" /\ lastResult'.op = "add_edge"

(* C11: add_node(name) fails with InvalidNode when name is empty and with  *)
(* DuplicatedNode when a node has that name, and then leaves the node      *)
(* vector and the name map as they were; otherwise it appends a new node   *)
(* whose index is the previous node count and maps the name to it.         *)
C11_Step ==
    AddNodeStep =>
        LET name == lastResult'.args[1] IN
        IF name = ""
        THEN /\ ~lastResult'.ok /\ lastResult'.err = InvalidNode("")
             /\ nodes' = nodes /\ nodes_indices' = nodes_indices
        ELSE IF Registered(nodes, name)
        THEN /\ ~lastResult'.ok /\ lastResult'.err = DuplicatedNode(name)
             /\ nodes' = nodes /\ nodes_indices' = nodes_indices
        ELSE /\ lastResult'.ok
             /\ Len(nodes') = Len(nodes) + 1
             /\ \A k \in 1 .. Len(nodes) : nodes'[k] = nodes[k]
             /\ nodes'[Len(nodes')] =
                   [index |-> Len(nodes), name |-> name, parent_count |-> 0,
                    childrens |-> <<>>, childrens_set |-> {}]
             /\ DOMAIN nodes_indices' = DOMAIN nodes_indices \cup {name}
             /\ nodes_indices'[name] = Len(nodes)
             /\ \A n \in DOMAIN nodes_indices : nodes_indices'[n] = nodes_indices[n]

C11_AddNode == [][C11_Step]_vars

(* add_node was refused for the name of a node that already has a child.   *)
C11_Witness ==
    /\ phase = "building" /\ lastResult.op = "add_node" /\ ~lastResult.ok
    /\ lastResult.err.kind = "DuplicatedNode"
    /\ \E k \in 1 .. Len(nodes) :
          nodes[k].name = lastResult.args[1] /\ nodes[k].childrens # <<>>

(* C12: add_edge(from, to) fails with InvalidEdge when a name is empty or  *)
(* both are equal, registered or not; else with NodeNotFound(from) when    *)
(* from is no node; else with NodeNotFound(to) when to is no node; else    *)
(* with DuplicatedEdge when the edge exists.  After a failure the node     *)
(* vector (every parent_count, child list and child set) and the name map  *)
(* are as they were.                                                       *)
C12_Expected(from_node, to_node) ==
    IF from_node = "" \/ to_node = "" \/ from_node = to_node
    THEN InvalidEdge(from_node, to_node)
    ELSE IF ~Registered(nodes, from_node) THEN NodeNotFound(from_node)
    ELSE IF ~Registered(nodes, to_node) THEN NodeNotFound(to_node)
    ELSE IF HasEdge(nodes, PosOfName(nodes, from_node), PosOfName(nodes, to_node))
    THEN DuplicatedEdge(from_node, to_node)
    ELSE NoErr

C12_Step ==
    AddEdgeStep =>
        LET expected == C12_Expected(lastResult'.args[1], lastResult'.args[2]) IN
        /\ lastResult'.err = expected
        /\ lastResult'.ok <=> (expected = NoErr)
        /\ ~lastResult'.ok => nodes' = nodes /\ nodes_indices' = nodes_indices

C12_AddEdge == [][C12_Step]_vars

(* add_edge was refused for an edge that exists, between nodes that have   *)
(* other edges.                                                            *)
C12_Witness ==
    /\ phase = "building" /\ lastResult.op = "add_edge" /\ ~lastResult.ok
    /\ lastResult.err.kind = "DuplicatedEdge"
    /\ Len(nodes) = 3
    /\ \A k \in 1 .. Len(nodes) : nodes[k].childrens # <<>>

(* C20: a successful add_edge(from, to) adds one to the parent_count of to *)
(* and appends the index of to at the end of the child list of from (and   *)
(* to its child set); the number of nodes, the name map and every other    *)
(* field of every node stay as they were.                                  *)
C20_Step ==
    (AddEdgeStep /\ lastResult'.ok) =>
        LET a == PosOfName(nodes, lastResult'.args[1])
            b == PosOfName(nodes, lastResult'.args[2])
        IN  /\ nodes_indices' = nodes_indices
            /\ Len(nodes') = Len(nodes)
            /\ \A k \in 1 .. Len(nodes) :
                  /\ nodes'[k].index = nodes[k].index
                  /\ nodes'[k].name = nodes[k].name
                  /\ nodes'[k].parent_count =
                        nodes[k].parent_count + (IF k = b THEN 1 ELSE 0)
                  /\ nodes'[k].childrens =
                        IF k = a THEN nodes[k].childrens \o <<nodes[b].index>>
                        ELSE nodes[k].childrens
                  /\ nodes'[k].childrens_set =
                        IF k = a THEN nodes[k].childrens_set \cup {nodes[b].index}
                        ELSE nodes[k].childrens_set

C20_AddEdgeFrame == [][C20_Step]_vars

(* add_edge succeeded from a node that already had a child: its child list *)
(* has two entries, in the order the edges were added, here C before B.    *)
C20_Witness ==
    /\ phase = "building" /\ lastResult.op = "add_edge" /\ lastResult.ok
    /\ Len(nodes) = 3
    /\ nodes[1].childrens = <<2, 1>>
    /\ lastResult.args = <<"A", "B">>

----------------------------------------------------------------------------
(* The indices of keep, ascending.                                         *)
RECURSIVE IndexSeq(_, _)
IndexSeq(index, keep) ==
    IF index >= N THEN <<>>
    ELSE (IF index \in keep THEN <<index>> ELSE <<>>) \o IndexSeq(index + 1, keep)

NoRealParent == {i \in Indices(nodes) : Parents(i) = {}}

(* C13: once froze() has succeeded, the root has index N, its child list   *)
(* holds, each once and in ascending index order, exactly the nodes no     *)
(* real node has an edge to, and every real node is reachable from the     *)
(* root along child edges.                                                 *)
C13_RootOfFrozen ==
    phase \in {"frozen", "scheduler"} =>
        /\ root.index = N
        /\ root.childrens = IndexSeq(0, NoRealParent)
        /\ root.childrens_set = NoRealParent
        /\ ReachFrom(NoRealParent, NoRealParent) = Indices(nodes)
        /\ {root.childrens[k] : k \in 1 .. Len(root.childrens)}
              \cup ReachFrom({root.childrens[k] : k \in 1 .. Len(root.childrens)}, {})
              = Indices(nodes)

(* A frozen graph of three nodes: two under the root, the third a child of *)
(* both of them.                                                           *)
C13_Witness ==
    /\ phase = "frozen" /\ N = 3
    /\ Len(root.childrens) = 2
    /\ \E i \in Indices(nodes) : Cardinality(Parents(i)) = 2

(* C14: as long as the thread of a dispatched node has not finished, no    *)
(* step takes run() out of the call: it neither returns nor unwinds, also  *)
(* when the loop was already left with an error.                           *)
C14_Step ==
    (/\ phase = "scheduler" /\ pc \in {"recv", "join"}
     /\ \E i \in Indices(threads) : At(threads, i) = "spawned") =>
        pc' \in {"recv", "join"}

C14_StuckTaskBlocksRun == [][C14_Step]_vars

(* The loop was left with the error of one node while the thread of        *)
(* another node is still running its task.                                 *)
C14_Witness ==
    /\ phase = "scheduler" /\ pc = "join" /\ ret.kind = "Err"
    /\ \E i \in Indices(threads) :
          At(threads, i) = "spawned" /\ At(nodes, i).name # ret.err.node

(* C15: in the first run() a thread is spawned for a node only in the step *)
(* that takes its counter from 1 to 0, and that step spawns it unless the  *)
(* spawn fails and run() panics; the counter of a dispatched node is never *)
(* touched again, so no node is dispatched or invoked twice; the root is   *)
(* in no child list and has no thread.                                     *)
C15_State ==
    FirstRun =>
        /\ Len(threads) = N /\ Len(running_nodes) = N
        /\ root.index \notin Indices(threads)
        /\ \A j \in Indices(nodes) : root.index \notin Children(j)
        /\ \A i \in Indices(threads) :
              /\ Len(At(produced, i)) <= 1
              /\ Dispatched(i) => At(running_nodes, i).n_unfinished = 0
              /\ Dispatched(i) => ~HasInteriorNul(At(nodes, i).name)
              /\ (At(running_nodes, i).n_unfinished = 0 /\ ~Dispatched(i)) =>
                    SpawnPanicked
        /\ Cardinality({i \in Indices(threads) :
                           At(running_nodes, i).n_unfinished = 0 /\ ~Dispatched(i)}) <= 1

C15_Step ==
    (phase = "scheduler" /\ nRuns' = 1) =>
        \A i \in Indices(threads') :
            LET before == IF nRuns = 1 THEN At(running_nodes, i).n_unfinished
                          ELSE At(nodes, i).parent_count
                after == At(running_nodes', i).n_unfinished
                wasNone == nRuns = 0 \/ At(threads, i) = "none"
            IN  /\ (wasNone /\ At(threads', i) = "spawned") => (before = 1 /\ after = 0)
                /\ (wasNone /\ before = 1 /\ after = 0) =>
                      \/ At(threads', i) = "spawned"
                      \/ /\ ret' = RetUnwind(IF HasInteriorNul(At(nodes, i).name)
                                              THEN ThreadNameNul ELSE SpawnFailed)
                         /\ pc' = "join"
                /\ wasNone => after \in {before, before - 1}
                /\ ~wasNone => At(threads', i) # "none" /\ after = before

C15_DispatchOnceAtZero == [](C15_State) /\ [][C15_Step]_vars

(* In the first run() a node with two parents has been dispatched, at the  *)
(* second decrement of its counter.                                        *)
C15_Witness ==
    /\ FirstRun
    /\ \E i \in Indices(threads) :
          /\ Cardinality(Parents(i)) = 2
          /\ Dispatched(i)
          /\ At(running_nodes, i).n_unfinished = 0

(* C16 as stated: a successful froze() leaves index, parent_count and      *)
(* child list of every node as they were.                                  *)
FrozeOkStep == phase = "building" /\ phase' = "frozen"

C16_NodesUnmodified ==
    [][FrozeOkStep =>
         /\ Len(nodes') = Len(nodes)
         /\ \A k \in 1 .. Len(nodes) :
               /\ nodes'[k].index = nodes[k].index
               /\ nodes'[k].parent_count = nodes[k].parent_count
               /\ nodes'[k].childrens = nodes[k].childrens]_vars

(* C16, amended: a successful froze() leaves index, name and child list of *)
(* every node as they were; parent_count is as it was for a node that has  *)
(* a real parent and is one more, for the root, for a node that has none.  *)
C16_NodesUnmodifiedButRootCount ==
    [][FrozeOkStep =>
         /\ Len(nodes') = Len(nodes)
         /\ nodes_indices' = nodes_indices
         /\ \A k \in 1 .. Len(nodes) :
               /\ nodes'[k].index = nodes[k].index
               /\ nodes'[k].name = nodes[k].name
               /\ nodes'[k].childrens = nodes[k].childrens
               /\ nodes'[k].childrens_set = nodes[k].childrens_set
               /\ nodes'[k].parent_count =
                     IF Parents(k - 1) = {} THEN nodes[k].parent_count + 1
                     ELSE nodes[k].parent_count]_vars

(* A frozen graph in which a node without real parent has parent_count 1   *)
(* and a node with two real parents has parent_count 2.                    *)
C16_Witness ==
    /\ phase = "frozen" /\ lastResult.op = "froze" /\ lastResult.ok
    /\ \E i \in Indices(nodes) : Parents(i) = {} /\ At(nodes, i).parent_count = 1
    /\ \E i \in Indices(nodes) :
          Cardinality(Parents(i)) = 2 /\ At(nodes, i).parent_count = 2

(* C17: whatever earlier calls did, a run() starts from counters equal to  *)
(* the parent_count of the frozen nodes: when it first waits on the        *)
(* channel, having dispatched the children of the root, the counter of     *)
(* each child of the root is its parent_count less the root's decrement,   *)
(* every other counter is the node's parent_count, and exactly the         *)
(* children of the root have a thread; when the spawn of the k-th child of *)
(* the root failed instead, the same holds with the first k children of    *)
(* the root decremented and the first k - 1 spawned.  No step of a         *)
(* Scheduler changes the nodes, the name map or the root of the            *)
(* FrozenGraph.                                                            *)
C17_RootPos(i) ==
    IF i \in root.childrens_set
    THEN CHOOSE k \in 1 .. Len(root.childrens) : root.childrens[k] = i
    ELSE 0

(* The root's dispatch decremented its first k children and spawned the    *)
(* first j of them.                                                        *)
C17_Started(rns, ths, k, j) ==
    \A i \in Indices(nodes) :
        /\ At(rns, i).index = i
        /\ At(rns, i).n_unfinished =
              At(nodes, i).parent_count
                  - (IF 0 < C17_RootPos(i) /\ C17_RootPos(i) <= k THEN 1 ELSE 0)
        /\ At(ths, i) =
              IF 0 < C17_RootPos(i) /\ C17_RootPos(i) <= j THEN "spawned" ELSE "none"

C17_Step ==
    /\ (phase = "scheduler" /\ nRuns' = nRuns + 1) =>
          /\ Len(running_nodes') = N
          /\ pc' = "recv" =>
                C17_Started(running_nodes', threads',
                            Len(root.childrens), Len(root.childrens))
          /\ pc' # "recv" =>
                \/ N = 0 /\ ret' = RetOk
                \/ /\ ret'.kind = "Unwind"
                   /\ ret'.panic \in {ThreadNameNul, SpawnFailed}
                   /\ \E k \in 1 .. Len(root.childrens) :
                         C17_Started(running_nodes', threads', k, k - 1)
    /\ phase = "scheduler" =>
          nodes' = nodes /\ root' = root /\ nodes_indices' = nodes_indices

C17_FreshCountersFrozenGraph == [][C17_Step]_vars

(* A second run(), after a failed one that left an event in the channel,   *)
(* waits for its first event with the counter of a node with two parents   *)
(* at 2.                                                                   *)
C17_Witness ==
    /\ phase = "scheduler" /\ nRuns = 2 /\ pc = "recv" /\ iter = 0
    /\ lastResult.op = "run" /\ ~lastResult.ok
    /\ channel # <<>>
    /\ \E i \in Indices(nodes) :
          At(nodes, i).parent_count = 2 /\ At(running_nodes, i).n_unfinished = 2

(* C18: in the first run() the Done events consumed are those of distinct  *)
(* nodes, one per iteration, and each is consumed when the Done events of  *)
(* all parents of its node have been consumed: the order of consumption is *)
(* a prefix of a topological order.                                        *)
C18_State ==
    FirstRun =>
        /\ Cardinality(doneSet) = iter
        /\ \A i \in doneSet : i \in Indices(nodes) /\ Parents(i) \subseteq doneSet

C18_Step ==
    (phase = "scheduler" /\ nRuns = 1 /\ nRuns' = 1
        /\ (doneSet' # doneSet \/ iter' # iter)) =>
        /\ channel # <<>>
        /\ Head(channel).kind = "Done"
        /\ Head(channel).index \notin doneSet
        /\ doneSet' = doneSet \cup {Head(channel).index}
        /\ Parents(Head(channel).index) \subseteq doneSet
        /\ iter' = iter + 1

C18_DoneOrderTopological == [](C18_State) /\ [][C18_Step]_vars

(* The first run() has consumed the Done events of all three nodes of a    *)
(* graph in which one node has two parents.                                *)
C18_Witness ==
    /\ FirstRun /\ iter = 3 /\ doneSet = {0, 1, 2}
    /\ \E i \in Indices(nodes) : Cardinality(Parents(i)) = 2

(* C19: the step in which the thread of node i finishes appends exactly    *)
(* one event to the channel, with index i, Done if the task returned Ok,   *)
(* Error with the task's error if it returned Err, Panic with the payload  *)
(* if it panicked; it changes no counter and nothing of the loop; nothing  *)
(* else sends, and a terminated thread sends nothing more.                 *)
C19_EventOf(i, outcome) ==
    IF outcome = "Ok" THEN [kind |-> "Done", index |-> i]
    ELSE IF outcome = "Err"
    THEN [kind |-> "Error", index |-> i, err |-> TaskValue(At(nodes, i).name, "Err")]
    ELSE [kind |-> "Panic", index |-> i, err |-> TaskValue(At(nodes, i).name, "Panic")]

C19_Finishes(i) ==
    At(threads, i) = "spawned" /\ At(threads', i) = "terminated"

C19_Step ==
    (phase = "scheduler" /\ nRuns' = nRuns) =>
        /\ \A i \in Indices(threads) :
              /\ C19_Finishes(i) =>
                    /\ Len(At(produced', i)) = Len(At(produced, i)) + 1
                    /\ channel' =
                          Append(channel,
                                 C19_EventOf(i, At(produced', i)[Len(At(produced', i))]))
                    /\ running_nodes' = running_nodes
                    /\ pc' = pc /\ iter' = iter /\ ret' = ret /\ doneSet' = doneSet
                    /\ \A j \in Indices(threads) \ {i} :
                          At(threads', j) = At(threads, j)
              /\ At(threads, i) = "terminated" =>
                    At(threads', i) = "terminated" /\ At(produced', i) = At(produced, i)
        /\ Len(channel') > Len(channel) =>
              \E i \in Indices(threads) : C19_Finishes(i)

C19_OneEventPerThread == [][C19_Step]_vars

(* The thread of a node whose task returned Err has terminated and its     *)
(* Error event is in the channel, while the thread of another node, whose  *)
(* task panicked, has put a Panic event behind it.                         *)
C19_Witness ==
    /\ phase = "scheduler" /\ pc = "recv"
    /\ Len(channel) = 2
    /\ channel[1].kind = "Error" /\ channel[2].kind = "Panic"
    /\ At(threads, channel[1].index) = "terminated"
    /\ At(produced, channel[1].index) = <<"Err">>
    /\ At(produced, channel[2].index) = <<"Panic">>

----------------------------------------------------------------------------
(* The structural invariant of a Graph under construction.                 *)
C23_IndexIsPosition == \A i \in Indices(nodes) : At(nodes, i).index = i

C23_MapBijection ==
    /\ DOMAIN nodes_indices = {At(nodes, i).name : i \in Indices(nodes)}
    /\ "" \notin DOMAIN nodes_indices
    /\ \A i \in Indices(nodes) : nodes_indices[At(nodes, i).name] = i
    /\ \A i \in Indices(nodes), j \in Indices(nodes) :
          At(nodes, i).name = At(nodes, j).name => i = j
    /\ {nodes_indices[n] : n \in DOMAIN nodes_indices} = Indices(nodes)

C23_ChildListsClean ==
    \A i \in Indices(nodes) :
        LET cs == At(nodes, i).childrens IN
        /\ \A k \in 1 .. Len(cs) : cs[k] # i
        /\ \A k \in 1 .. Len(cs), m \in 1 .. Len(cs) : cs[k] = cs[m] => k = m
        /\ {cs[k] : k \in 1 .. Len(cs)} = At(nodes, i).childrens_set

C23_ParentCounts ==
    \A i \in Indices(nodes) : At(nodes, i).parent_count = Cardinality(Parents(i))

(* C23: after any sequence of add_node and add_edge calls, successful or   *)
(* failed, every node's index is its position, the name-to-index map is a  *)
(* bijection between the distinct non-empty node names and 0..len-1, no    *)
(* child list holds its own node or an index twice, each child list has    *)
(* the elements of its duplicate-detection set, and every parent_count is  *)
(* the number of nodes whose child list holds the node.                    *)
C23_GraphInvariant ==
    phase = "building" =>
        /\ C23_IndexIsPosition
        /\ C23_MapBijection
        /\ C23_ChildListsClean
        /\ C23_ParentCounts

(* Three nodes and three edges, one node with two parents and one with two *)
(* children, right after an add_edge call that was refused as a duplicate. *)
C23_Witness ==
    /\ phase = "building"
    /\ Len(nodes) = 3
    /\ \E i \in Indices(nodes) : At(nodes, i).parent_count = 2
    /\ \E i \in Indices(nodes) : Len(At(nodes, i).childrens) = 2
    /\ lastResult.op = "add_edge" /\ ~lastResult.ok
    /\ lastResult.err.kind = "DuplicatedEdge"

----------------------------------------------------------------------------
(* No counter of the run has gone below 0 (a wrapped subtraction leaves    *)
(* the residue -1) and no subtraction has panicked.                        *)
C22_State ==
    /\ \A i \in Indices(running_nodes) :
          /\ At(running_nodes, i).n_unfinished >= 0
          /\ At(nodes, i).parent_count - At(running_nodes, i).n_unfinished
                <= At(nodes, i).parent_count
    /\ ~SubtractPanicked

(* C22: in every run(), one that follows a failed run on the same          *)
(* Scheduler included, no remaining-dependency counter is decremented      *)
(* while it is 0: n_unfinished -= 1 never underflows and a node is         *)
(* decremented at most parent_count times in a run.                        *)
C22_NoUnderflow == InRun => C22_State

(* The same, for the runs that no failed run has preceded.                 *)
C22_NoUnderflowAfterOk == (InRun /\ prevAllOk /\ pc \in {"recv", "join"}) => C22_State

----------------------------------------------------------------------------
(* The events of this run that the loop has received: in the first run     *)
(* the channel holds events of this run only.                              *)
C21_Consumed ==
    Cardinality({i \in Indices(threads) : At(threads, i) = "terminated"}) - Len(channel)

C21_State ==
    FirstRun =>
        /\ iter <= N
        /\ C21_Consumed <= N
        /\ C21_Consumed \in {iter, iter + 1}
        /\ pc = "recv" =>
              /\ C21_Consumed = iter /\ iter < N
              /\ Cardinality({i \in Indices(threads) : Dispatched(i)}) > C21_Consumed
              /\ channel = <<>> => \E i \in Indices(threads) : At(threads, i) = "spawned"

(* C21: in the first run() over a frozen graph, whenever the loop waits on *)
(* the channel some unit dispatched in this run has an event that was not  *)
(* received yet, so the loop never waits for an event that nothing will    *)
(* send; and if every task terminates, run() returns, having received at   *)
(* most N events.                                                          *)
C21_FirstRunReturns ==
    /\ [](C21_State)
    /\ (FirstRun /\ pc = "recv") ~> (FirstRun /\ pc = "returned" /\ C21_Consumed <= N)

(* What holds of the first run: it never waits for an event that nothing   *)
(* will send, and if every task terminates the call ends, by returning or  *)
(* by the panic of a spawn that failed.                                    *)
C21_FirstRunEnds ==
    /\ [](C21_State)
    /\ [](FirstRun => ~SubtractPanicked)
    /\ (FirstRun /\ pc = "recv") ~>
          (FirstRun /\ C21_Consumed <= N /\ (pc = "returned" \/ (SpawnPanicked /\ pc = "unwound")))

(* The loop of the first run over three nodes waits on the empty channel   *)
(* for its third event, which the one thread still running will send.      *)
C21_Witness ==
    /\ FirstRun /\ pc = "recv" /\ channel = <<>>
    /\ N = 3 /\ iter = 2
    /\ Cardinality({i \in Indices(threads) : At(threads, i) = "spawned"}) = 1

=============================================================================
